---- MODULE Spec2Model ----
(***************************************************************************)
(* Model of the bevy_tarot input registry (crate bevy_tarot_chariot):      *)
(* GenericButton, MappedButtons and ButtonMapping, with the device         *)
(* snapshots (ButtonInput) the queries read;                               *)
(* and of the sprite sheets (crate bevy_tarot_magician): SpriteSheet with  *)
(* its Grid and List layouts, len, get and the TextureAtlasLayout          *)
(* conversion.                                                             *)
(*                                                                         *)
(* Conventions.  Option<T> is a sequence of length at most one: None is    *)
(* << >> and Some(x) is << x >>.  A HashMap is a function whose domain is  *)
(* its key set.  Vec positions are Rust's, counted from 0, so position p   *)
(* of a Vec v is v[p + 1].                                                 *)
(***************************************************************************)
EXTENDS Integers, Sequences, FiniteSets, TLC

VARIABLES
    mapped_buttons,   \* ButtonMapping.mapped_buttons: Vec<MappedButtons<A>>
    from_action_map,  \* ButtonMapping.from_action_map: HashMap<A, usize>
    from_button_map,  \* ButtonMapping.from_button_map: HashMap<GenericButton, usize>
    call,             \* the last insert_mapping / update_buttons call and its result
    inputs,           \* the three Option<&ButtonInput<_>> arguments of the queries
    query,            \* the query evaluated in the current state, and its result
    sheet,            \* a SpriteSheet: layout, size and the grid_sprite_size cache
    out,              \* the last SpriteSheet call, its result and whether it panicked
    overflow_checks,  \* the build's overflow-checks setting (on in the debug profile)
    dist,             \* the arguments of a dist_to_rect call and its result
    sprite_handle_map,        \* Res<SpriteHandleMap<K>>
    sprite_sheet_handle_map,  \* Res<SpriteSheetHandleMap<K>>
    atlas_layout_handle_map,  \* ResMut<TextureAtlasLayoutHandleMap<K>>
    sprite_sheets,    \* Assets<SpriteSheet>: the loaded sheets, by handle id
    atlas_layouts,    \* Assets<TextureAtlasLayout>: the layouts added, in order
    world,            \* the entities and the components the systems touch
    image,            \* EditingSpriteSheet.image: Option<Handle<Image>>
    event             \* the event the last step handled, and the handler's result

vars == <<mapped_buttons, from_action_map, from_button_map, call, inputs, query,
          sheet, out, overflow_checks, dist, sprite_handle_map,
          sprite_sheet_handle_map, atlas_layout_handle_map, sprite_sheets,
          atlas_layouts, world, image, event>>

\* The registry's and the queries' part of the state.
registry_vars == <<mapped_buttons, from_action_map, from_button_map, call, inputs, query>>

\* The sprite sheet's part of the state.
sheet_vars == <<sheet, out, overflow_checks>>

math_vars == <<dist>>

\* The resources and the world of add_sprite_to_entity.
asset_vars == <<sprite_handle_map, sprite_sheet_handle_map, atlas_layout_handle_map,
                sprite_sheets, atlas_layouts, world>>

editor_vars == <<image, event>>

(* ------------------------------ bounds -------------------------------- *)

\* Longest button list passed to MappedButtons::new / update_buttons.
MaxLen == 2

(* ------------------------------ values -------------------------------- *)

None == << >>
Some(x) == << x >>

\* The caller-defined action enum (the crate doc example's, plus one).
Actions == {"WalkLeft", "WalkRight"}

KeyBoard(k) == [tag |-> "KeyBoard", code |-> k]
Mouse(m) == [tag |-> "Mouse", code |-> m]
Gamepad(b) == [tag |-> "Gamepad", code |-> b]

KeyCodes == {"KeyA", "KeyD"}
MouseButtons == {"Left"}
GamepadButtons == {"South"}

GenericButton ==
    {KeyBoard(k) : k \in KeyCodes} \cup {Mouse(m) : m \in MouseButtons}
        \cup {Gamepad(b) : b \in GamepadButtons}

\* The buttons the registry's callers bind in the registry specifications.
Buttons == {KeyBoard("KeyA"), Mouse("Left")}

ButtonLists == UNION {[1..n -> Buttons] : n \in 0..MaxLen}

MappedButtons_new(action, buttons) == [action |-> action, buttons |-> buttons]

(* --------------------------- std collections -------------------------- *)

HashMap_new == [k \in {} |-> 0]
contains_key(map, k) == k \in DOMAIN map
HashMap_get(map, k) == IF k \in DOMAIN map THEN Some(map[k]) ELSE None
HashMap_insert(map, k, v) ==
    [x \in DOMAIN map \cup {k} |-> IF x = k THEN v ELSE map[x]]
HashMap_remove(map, k) == [x \in DOMAIN map \ {k} |-> map[x]]
Vec_get(v, i) == IF i < Len(v) THEN Some(v[i + 1]) ELSE None

(* ---------------------------- ButtonMapping --------------------------- *)

ButtonMapping_default ==
    [mapped_buttons |-> << >>,
     from_action_map |-> HashMap_new,
     from_button_map |-> HashMap_new]

\* The registry as one value, so that the lookups can be read before and
\* after a call.
self ==
    [mapped_buttons |-> mapped_buttons,
     from_action_map |-> from_action_map,
     from_button_map |-> from_button_map]

get_from_action(bm, action) ==
    LET i == HashMap_get(bm.from_action_map, action)
    IN  IF i = None THEN None ELSE Vec_get(bm.mapped_buttons, i[1])

get_from_button(bm, button) ==
    LET i == HashMap_get(bm.from_button_map, button)
    IN  IF i = None THEN None ELSE Vec_get(bm.mapped_buttons, i[1])

get_action(bm, button) ==
    LET m == get_from_button(bm, button)
    IN  IF m = None THEN None ELSE Some(m[1].action)

get_buttons(bm, action) ==
    LET m == get_from_action(bm, action)
    IN  IF m = None THEN None ELSE Some(m[1].buttons)

is_mapped(bm, button) == contains_key(bm.from_button_map, button)

\* buttons.iter().for_each(|b| from_button_map.insert(*b, i))
RECURSIVE insert_each(_, _, _)
insert_each(map, buttons, i) ==
    IF buttons = << >> THEN map
    ELSE insert_each(HashMap_insert(map, Head(buttons), i), Tail(buttons), i)

\* Mutant: the old buttons stay in the button index.
remove_none(map, buttons) == map

\* mapping.buttons.iter().for_each(|b| from_button_map.remove(b))
RECURSIVE remove_each(_, _)
remove_each(map, buttons) ==
    IF buttons = << >> THEN map
    ELSE remove_each(HashMap_remove(map, Head(buttons)), Tail(buttons))

\* Mutant: the early return looks at the action only.
insert_conflict_action_only(bm, mapping) ==
    contains_key(bm.from_action_map, mapping.action)

\* Mutant: the early return looks at the buttons only.
insert_conflict_buttons_only(bm, mapping) ==
    \E k \in DOMAIN mapping.buttons :
        contains_key(bm.from_button_map, mapping.buttons[k])

\* The early-return condition of insert_mapping.
insert_conflict(bm, mapping) ==
    \/ contains_key(bm.from_action_map, mapping.action)
    \/ \E k \in DOMAIN mapping.buttons :
          contains_key(bm.from_button_map, mapping.buttons[k])

\* Mutant: the indexes record the position after the push (the new length).
insert_commit_after_push(bm, mapping) ==
    [mapped_buttons |-> Append(bm.mapped_buttons, mapping),
     from_action_map |->
         HashMap_insert(bm.from_action_map, mapping.action, Len(bm.mapped_buttons) + 1),
     from_button_map |->
         insert_each(bm.from_button_map, mapping.buttons, Len(bm.mapped_buttons) + 1)]

\* The registry after a successful insert_mapping.
insert_commit(bm, mapping) ==
    [mapped_buttons |-> Append(bm.mapped_buttons, mapping),
     from_action_map |->
         HashMap_insert(bm.from_action_map, mapping.action, Len(bm.mapped_buttons)),
     from_button_map |->
         insert_each(bm.from_button_map, mapping.buttons, Len(bm.mapped_buttons))]

\* Mutant: the buttons are indexed one by one until a claimed one is met, so a
\* rejected mapping leaves its leading free buttons in the button index.
RECURSIVE insert_until_claimed(_, _, _)
insert_until_claimed(map, buttons, i) ==
    IF buttons = << >> \/ contains_key(map, Head(buttons)) THEN map
    ELSE insert_until_claimed(HashMap_insert(map, Head(buttons), i), Tail(buttons), i)

insert_mapping_fn_partial(bm, mapping) ==
    IF contains_key(bm.from_action_map, mapping.action)
    THEN [bm |-> bm, ret |-> FALSE]
    ELSE IF insert_conflict(bm, mapping)
    THEN [bm |-> [bm EXCEPT !.from_button_map =
                      insert_until_claimed(@, mapping.buttons, Len(bm.mapped_buttons))],
          ret |-> FALSE]
    ELSE [bm |-> insert_commit(bm, mapping), ret |-> TRUE]

\* insert_mapping as a function: the registry it leaves and what it returns.
insert_mapping_fn(bm, mapping) ==
    IF insert_conflict(bm, mapping)
    THEN [bm |-> bm, ret |-> FALSE]
    ELSE [bm |-> insert_commit(bm, mapping), ret |-> TRUE]

\* Mutant: the entry is taken out and pushed again with the new buttons, so the
\* entries behind it move up and the indexes are rebuilt for the new places.
update_commit_repush(bm, i, buttons) ==
    LET old == bm.mapped_buttons
        moved == [p \in 1..Len(old) |->
                     IF p <= i THEN old[p]
                     ELSE IF p < Len(old) THEN old[p + 1]
                     ELSE [old[i + 1] EXCEPT !.buttons = buttons]]
        place(b) == CHOOSE p \in 1..Len(moved) :
                        /\ b \in {moved[p].buttons[k] : k \in DOMAIN moved[p].buttons}
                        /\ \A q \in (p + 1)..Len(moved) :
                              b \notin {moved[q].buttons[k] : k \in DOMAIN moved[q].buttons}
    IN  [mapped_buttons |-> moved,
         from_action_map |->
             [a \in DOMAIN bm.from_action_map |->
                 (CHOOSE p \in 1..Len(moved) : moved[p].action = a) - 1],
         from_button_map |->
             [b \in UNION {{moved[p].buttons[k] : k \in DOMAIN moved[p].buttons} :
                               p \in 1..Len(moved)} |-> place(b) - 1]]

\* The registry after update_buttons found the action's entry at position i.
update_commit(bm, i, buttons) ==
    LET old == bm.mapped_buttons[i + 1].buttons
        removed == remove_each(bm.from_button_map, old)
    IN  [mapped_buttons |-> [bm.mapped_buttons EXCEPT ![i + 1].buttons = buttons],
         from_action_map |-> bm.from_action_map,
         from_button_map |-> insert_each(removed, buttons, i)]

\* Mutant: an action that is not present is inserted (an upsert).
update_buttons_fn_upsert(bm, action, buttons) ==
    IF get_from_action(bm, action) = None
    THEN insert_commit(bm, MappedButtons_new(action, buttons))
    ELSE update_commit(bm, bm.from_action_map[action], buttons)

\* update_buttons as a function: the registry it leaves.
update_buttons_fn(bm, action, buttons) ==
    IF get_from_action(bm, action) = None THEN bm
    ELSE update_commit(bm, bm.from_action_map[action], buttons)

(* ----------------------- bevy_input::ButtonInput ---------------------- *)

\* A device snapshot: the codes pressed, just pressed and just released.
ButtonInput_default == [pressed |-> {}, just_pressed |-> {}, just_released |-> {}]

ButtonInput_press(bi, x) ==
    IF x \in bi.pressed THEN bi
    ELSE [bi EXCEPT !.pressed = @ \cup {x}, !.just_pressed = @ \cup {x}]

ButtonInput_release(bi, x) ==
    IF x \in bi.pressed
    THEN [bi EXCEPT !.pressed = @ \ {x}, !.just_released = @ \cup {x}]
    ELSE bi

ButtonInput_clear(bi) == [bi EXCEPT !.just_pressed = {}, !.just_released = {}]

ButtonInput_pressed(bi, x) == x \in bi.pressed
ButtonInput_just_pressed(bi, x) == x \in bi.just_pressed
ButtonInput_just_released(bi, x) == x \in bi.just_released

(* ---------------------------- GenericButton --------------------------- *)

GenericButton_pressed(b, key_codes, mouse_buttons, gamepad_buttons) ==
    CASE b.tag = "KeyBoard" ->
            IF key_codes = None THEN FALSE
            ELSE ButtonInput_pressed(key_codes[1], b.code)
      [] b.tag = "Mouse" ->
            IF mouse_buttons = None THEN FALSE
            ELSE ButtonInput_pressed(mouse_buttons[1], b.code)
      [] b.tag = "Gamepad" ->
            IF gamepad_buttons = None THEN FALSE
            ELSE ButtonInput_pressed(gamepad_buttons[1], b.code)

\* Mutant: the Mouse arm answers true when its snapshot is omitted.
GenericButton_just_pressed_none_true(b, key_codes, mouse_buttons, gamepad_buttons) ==
    CASE b.tag = "KeyBoard" ->
            IF key_codes = None THEN FALSE
            ELSE ButtonInput_just_pressed(key_codes[1], b.code)
      [] b.tag = "Mouse" ->
            IF mouse_buttons = None THEN TRUE
            ELSE ButtonInput_just_pressed(mouse_buttons[1], b.code)
      [] b.tag = "Gamepad" ->
            IF gamepad_buttons = None THEN FALSE
            ELSE ButtonInput_just_pressed(gamepad_buttons[1], b.code)

GenericButton_just_pressed(b, key_codes, mouse_buttons, gamepad_buttons) ==
    CASE b.tag = "KeyBoard" ->
            IF key_codes = None THEN FALSE
            ELSE ButtonInput_just_pressed(key_codes[1], b.code)
      [] b.tag = "Mouse" ->
            IF mouse_buttons = None THEN FALSE
            ELSE ButtonInput_just_pressed(mouse_buttons[1], b.code)
      [] b.tag = "Gamepad" ->
            IF gamepad_buttons = None THEN FALSE
            ELSE ButtonInput_just_pressed(gamepad_buttons[1], b.code)

\* Mutant: the Gamepad arm answers only when a keyboard snapshot came too.
GenericButton_just_released_needs_keys(b, key_codes, mouse_buttons, gamepad_buttons) ==
    CASE b.tag = "KeyBoard" ->
            IF key_codes = None THEN FALSE
            ELSE ButtonInput_just_released(key_codes[1], b.code)
      [] b.tag = "Mouse" ->
            IF mouse_buttons = None THEN FALSE
            ELSE ButtonInput_just_released(mouse_buttons[1], b.code)
      [] b.tag = "Gamepad" ->
            IF gamepad_buttons = None \/ key_codes = None THEN FALSE
            ELSE ButtonInput_just_released(gamepad_buttons[1], b.code)

GenericButton_just_released(b, key_codes, mouse_buttons, gamepad_buttons) ==
    CASE b.tag = "KeyBoard" ->
            IF key_codes = None THEN FALSE
            ELSE ButtonInput_just_released(key_codes[1], b.code)
      [] b.tag = "Mouse" ->
            IF mouse_buttons = None THEN FALSE
            ELSE ButtonInput_just_released(mouse_buttons[1], b.code)
      [] b.tag = "Gamepad" ->
            IF gamepad_buttons = None THEN FALSE
            ELSE ButtonInput_just_released(gamepad_buttons[1], b.code)

(* ----------------------- ButtonMapping's queries ---------------------- *)

\* bts.iter().any(|b| b.pressed(key_codes, mouse_buttons, gamepad_buttons))
RECURSIVE any_pressed(_, _, _, _)
any_pressed(bts, key_codes, mouse_buttons, gamepad_buttons) ==
    IF bts = << >> THEN FALSE
    ELSE IF GenericButton_pressed(Head(bts), key_codes, mouse_buttons, gamepad_buttons)
         THEN TRUE
         ELSE any_pressed(Tail(bts), key_codes, mouse_buttons, gamepad_buttons)

\* Mutant: iter().all in place of iter().any.
RECURSIVE all_just_pressed(_, _, _, _)
all_just_pressed(bts, key_codes, mouse_buttons, gamepad_buttons) ==
    IF bts = << >> THEN TRUE
    ELSE IF GenericButton_just_pressed(Head(bts), key_codes, mouse_buttons, gamepad_buttons)
         THEN all_just_pressed(Tail(bts), key_codes, mouse_buttons, gamepad_buttons)
         ELSE FALSE

RECURSIVE any_just_pressed(_, _, _, _)
any_just_pressed(bts, key_codes, mouse_buttons, gamepad_buttons) ==
    IF bts = << >> THEN FALSE
    ELSE IF GenericButton_just_pressed(Head(bts), key_codes, mouse_buttons, gamepad_buttons)
         THEN TRUE
         ELSE any_just_pressed(Tail(bts), key_codes, mouse_buttons, gamepad_buttons)

RECURSIVE any_just_released(_, _, _, _)
any_just_released(bts, key_codes, mouse_buttons, gamepad_buttons) ==
    IF bts = << >> THEN FALSE
    ELSE IF GenericButton_just_released(Head(bts), key_codes, mouse_buttons, gamepad_buttons)
         THEN TRUE
         ELSE any_just_released(Tail(bts), key_codes, mouse_buttons, gamepad_buttons)

ButtonMapping_pressed(bm, action, key_codes, mouse_buttons, gamepad_buttons) ==
    LET bts == get_buttons(bm, action)
    IN  IF bts = None THEN FALSE
        ELSE any_pressed(bts[1], key_codes, mouse_buttons, gamepad_buttons)

ButtonMapping_just_pressed(bm, action, key_codes, mouse_buttons, gamepad_buttons) ==
    LET bts == get_buttons(bm, action)
    IN  IF bts = None THEN FALSE
        ELSE any_just_pressed(bts[1], key_codes, mouse_buttons, gamepad_buttons)

ButtonMapping_just_released(bm, action, key_codes, mouse_buttons, gamepad_buttons) ==
    LET bts == get_buttons(bm, action)
    IN  IF bts = None THEN FALSE
        ELSE any_just_released(bts[1], key_codes, mouse_buttons, gamepad_buttons)

(* ------------------------------ actions ------------------------------- *)

NoCall == [op |-> "default", action |-> "", buttons |-> << >>, ret |-> FALSE]

NoQuery ==
    [on |-> "none", fn |-> "", action |-> "", button |-> KeyBoard(""), result |-> FALSE]

NoInputs == [key_codes |-> None, mouse_buttons |-> None, gamepad_buttons |-> None]

\* No sprite sheet is loaded and no SpriteSheet method was called.
NoSheet == None

NoOut == [op |-> "none", index |-> 0, ret |-> None, panic |-> FALSE]

\* dist_to_rect was not called.
NoDist == [called |-> FALSE, rect |-> [min |-> <<0, 0>>, max |-> <<0, 0>>],
           point |-> <<0, 0>>, ret |-> 0]

\* impl Default for HandleMap
HandleMap_default == [handles |-> << >>, map |-> HashMap_new, id_to_key |-> HashMap_new]

\* No event was triggered.
NoEvent == [op |-> "none"]

\* ButtonMapping::default(), no call and no query.
IdleRegistry ==
    /\ mapped_buttons = << >>
    /\ from_action_map = HashMap_new
    /\ from_button_map = HashMap_new
    /\ call = NoCall
    /\ inputs = NoInputs
    /\ query = NoQuery

IdleSheet ==
    /\ sheet = NoSheet
    /\ out = NoOut
    /\ overflow_checks = TRUE

IdleMath == dist = NoDist

\* The magician plugin's resources as inserted: empty handle maps, no asset,
\* and a world without entities.
IdleAssets ==
    /\ sprite_handle_map = HandleMap_default
    /\ sprite_sheet_handle_map = HandleMap_default
    /\ atlas_layout_handle_map = HandleMap_default
    /\ sprite_sheets = HashMap_new
    /\ atlas_layouts = << >>
    /\ world = HashMap_new

\* EditingSpriteSheet::default() (its sheet is the variable sheet), no event.
IdleEditor ==
    /\ image = None
    /\ event = NoEvent

Idle == IdleMath /\ IdleAssets /\ IdleEditor

\* ButtonMapping::default(); no snapshot is passed and nothing was asked.
Init ==
    /\ mapped_buttons = ButtonMapping_default.mapped_buttons
    /\ from_action_map = ButtonMapping_default.from_action_map
    /\ from_button_map = ButtonMapping_default.from_button_map
    /\ call = NoCall
    /\ inputs = NoInputs
    /\ query = NoQuery
    /\ sheet = NoSheet
    /\ out = NoOut
    /\ overflow_checks = TRUE
    /\ Idle

Store(bm) ==
    /\ mapped_buttons' = bm.mapped_buttons
    /\ from_action_map' = bm.from_action_map
    /\ from_button_map' = bm.from_button_map

insert_mapping(mapping) ==
    LET r == insert_mapping_fn(self, mapping)
    IN  /\ Store(r.bm)
        /\ call' = [op |-> "insert_mapping", action |-> mapping.action,
                    buttons |-> mapping.buttons, ret |-> r.ret]
        /\ query' = NoQuery
        /\ UNCHANGED <<inputs, sheet_vars, math_vars, asset_vars, editor_vars>>

update_buttons(action, buttons) ==
    /\ Store(update_buttons_fn(self, action, buttons))
    /\ call' = [op |-> "update_buttons", action |-> action,
                buttons |-> buttons, ret |-> FALSE]
    /\ query' = NoQuery
    /\ UNCHANGED <<inputs, sheet_vars, math_vars, asset_vars, editor_vars>>

Insert == \E a \in Actions, bts \in ButtonLists : insert_mapping(MappedButtons_new(a, bts))

Update == \E a \in Actions, bts \in ButtonLists : update_buttons(a, bts)

NextInsert == Insert

Next == Insert \/ Update

SpecInsert == Init /\ [][NextInsert]_vars

Spec == Init /\ [][Next]_vars

(* ----------------------- the lookups' specification -------------------- *)

LookupFns == {"get_buttons", "get_action", "is_mapped"}

\* A call of get_buttons, get_action or is_mapped (&self): the registry is
\* only read.  The step is no insert_mapping or update_buttons call.
Lookup ==
    \/ \E a \in Actions :
          /\ query' = [on |-> "lookup", fn |-> "get_buttons", action |-> a,
                       button |-> KeyBoard(""), result |-> get_buttons(self, a)]
          /\ call' = NoCall
          /\ UNCHANGED <<mapped_buttons, from_action_map, from_button_map, inputs, sheet_vars, math_vars, asset_vars, editor_vars>>
    \/ \E b \in GenericButton :
          /\ query' = [on |-> "lookup", fn |-> "get_action", action |-> "",
                       button |-> b, result |-> get_action(self, b)]
          /\ call' = NoCall
          /\ UNCHANGED <<mapped_buttons, from_action_map, from_button_map, inputs, sheet_vars, math_vars, asset_vars, editor_vars>>
    \/ \E b \in GenericButton :
          /\ query' = [on |-> "lookup", fn |-> "is_mapped", action |-> "",
                       button |-> b, result |-> is_mapped(self, b)]
          /\ call' = NoCall
          /\ UNCHANGED <<mapped_buttons, from_action_map, from_button_map, inputs, sheet_vars, math_vars, asset_vars, editor_vars>>

NextLookup == Insert \/ Update \/ Lookup

SpecLookup == Init /\ [][NextLookup]_vars

(* ----------------------- the queries' specification -------------------- *)

\* The device classes, named as the queries' parameters, and their codes.
Devices == {"key_codes", "mouse_buttons", "gamepad_buttons"}

Codes(dev) ==
    CASE dev = "key_codes" -> KeyCodes
      [] dev = "mouse_buttons" -> MouseButtons
      [] dev = "gamepad_buttons" -> GamepadButtons

\* The mappings an InputAction::default_mapping() inserts: the crate doc
\* example's, with a mouse and a gamepad button added to WalkRight.
DefaultMappings ==
    {MappedButtons_new("WalkLeft", <<KeyBoard("KeyA")>>),
     MappedButtons_new("WalkRight", <<KeyBoard("KeyD"), Mouse("Left"), Gamepad("South")>>)}

\* A call site passes Some(&input) or None for each device class.
InitInput ==
    /\ mapped_buttons = ButtonMapping_default.mapped_buttons
    /\ from_action_map = ButtonMapping_default.from_action_map
    /\ from_button_map = ButtonMapping_default.from_button_map
    /\ call = NoCall
    /\ inputs \in [Devices -> {None, Some(ButtonInput_default)}]
    /\ query = NoQuery
    /\ sheet = NoSheet
    /\ out = NoOut
    /\ overflow_checks = TRUE
    /\ Idle

DefaultMapping == \E m \in DefaultMappings : insert_mapping(m)

Device(dev, bi) ==
    /\ inputs' = [inputs EXCEPT ![dev] = Some(bi)]
    /\ query' = NoQuery
    /\ UNCHANGED <<mapped_buttons, from_action_map, from_button_map, call, sheet_vars, math_vars, asset_vars, editor_vars>>

Press ==
    \E dev \in Devices : \E x \in Codes(dev) :
        /\ inputs[dev] # None
        /\ Device(dev, ButtonInput_press(inputs[dev][1], x))

Release ==
    \E dev \in Devices : \E x \in Codes(dev) :
        /\ inputs[dev] # None
        /\ Device(dev, ButtonInput_release(inputs[dev][1], x))

Clear ==
    \E dev \in Devices :
        /\ inputs[dev] # None
        /\ Device(dev, ButtonInput_clear(inputs[dev][1]))

QueryFns == {"pressed", "just_pressed", "just_released"}

GenericButton_query(fn, b) ==
    CASE fn = "pressed" ->
            GenericButton_pressed(b, inputs.key_codes, inputs.mouse_buttons,
                                  inputs.gamepad_buttons)
      [] fn = "just_pressed" ->
            GenericButton_just_pressed(b, inputs.key_codes, inputs.mouse_buttons,
                                       inputs.gamepad_buttons)
      [] fn = "just_released" ->
            GenericButton_just_released(b, inputs.key_codes, inputs.mouse_buttons,
                                        inputs.gamepad_buttons)

ButtonMapping_query(fn, action) ==
    CASE fn = "pressed" ->
            ButtonMapping_pressed(self, action, inputs.key_codes,
                                  inputs.mouse_buttons, inputs.gamepad_buttons)
      [] fn = "just_pressed" ->
            ButtonMapping_just_pressed(self, action, inputs.key_codes,
                                       inputs.mouse_buttons, inputs.gamepad_buttons)
      [] fn = "just_released" ->
            ButtonMapping_just_released(self, action, inputs.key_codes,
                                        inputs.mouse_buttons, inputs.gamepad_buttons)

QueryButton ==
    \E fn \in QueryFns, b \in GenericButton :
        /\ query' = [on |-> "GenericButton", fn |-> fn, action |-> "", button |-> b,
                     result |-> GenericButton_query(fn, b)]
        /\ UNCHANGED <<mapped_buttons, from_action_map, from_button_map, call, inputs, sheet_vars, math_vars, asset_vars, editor_vars>>

QueryAction ==
    \E fn \in QueryFns, a \in Actions :
        /\ query' = [on |-> "ButtonMapping", fn |-> fn, action |-> a,
                     button |-> KeyBoard(""), result |-> ButtonMapping_query(fn, a)]
        /\ UNCHANGED <<mapped_buttons, from_action_map, from_button_map, call, inputs, sheet_vars, math_vars, asset_vars, editor_vars>>

\* GenericButton's queries on every snapshot the devices can show.
NextButton == Press \/ Release \/ Clear \/ QueryButton

SpecButton == InitInput /\ [][NextButton]_vars

\* ButtonMapping's queries, on a mapping built by default_mapping().
NextInput == DefaultMapping \/ Press \/ Release \/ Clear \/ QueryAction

SpecInput == InitInput /\ [][NextInput]_vars

(* ====================================================================== *)
(*            Sprite sheets (crate bevy_tarot_magician, sprite.rs)        *)
(* ====================================================================== *)

\* The model's u32 is a word of WordBits bits: the checker's integers cannot
\* hold 2^32.  Every u32 operation of the code wraps (or panics) at
\* 2^WordBits here as it does at 2^32 there.
WordBits == 8

\* One past u32::MAX.
U32 == 2 ^ WordBits

\* Largest number of rows and of columns of the grids enumerated one by one.
MaxDim == 5

\* Longest rectangle list of a List layout.
MaxList == 2

\* An arithmetic u32 result v: the value wraps; with overflow checks (the
\* debug profile) an overflow panics instead.
u32(v, checks) == [val |-> v % U32, panic |-> checks /\ v >= U32]

SpriteData_new(min, max) == [min |-> min, max |-> max]

Grid(rows, cols) == [tag |-> "Grid", rows |-> rows, cols |-> cols]

List(list) == [tag |-> "List", list |-> list]

IsGridLayout(layout) == layout.tag = "Grid"

IsListLayout(layout) == layout.tag = "List"

SpriteSheet(layout, size, grid_sprite_size) ==
    [layout |-> layout, size |-> size, grid_sprite_size |-> grid_sprite_size]

\* (self.rows * self.cols) as usize: the product is taken in u32.
SpriteSheetGrid_len(g, checks) == u32(g.rows * g.cols, checks)

len_fn(s, checks) ==
    IF s.layout.tag = "Grid" THEN SpriteSheetGrid_len(s.layout, checks)
    ELSE [val |-> Len(s.layout.list), panic |-> FALSE]

\* Mutant: width is divided by rows and height by cols.
compute_sprite_size_swapped(s) ==
    << s.size[1] \div s.layout.rows, s.size[2] \div s.layout.cols >>

\* (self.size.0 / g.cols, self.size.1 / g.rows); called with rows, cols > 0.
compute_sprite_size(s) ==
    << s.size[1] \div s.layout.cols, s.size[2] \div s.layout.rows >>

\* Mutant: the computed cell size is not stored.
sprite_size_never_stored(s) ==
    [sheet |-> s,
     sprite_size |-> IF s.grid_sprite_size # None THEN s.grid_sprite_size[1]
                     ELSE compute_sprite_size(s)]

\* The block that borrows grid_sprite_size: the cached cell size, or the
\* computed one, which is then stored.
sprite_size_or_init(s) ==
    IF s.grid_sprite_size # None
    THEN [sheet |-> s, sprite_size |-> s.grid_sprite_size[1]]
    ELSE LET sprite_size == compute_sprite_size(s)
         IN  [sheet |-> [s EXCEPT !.grid_sprite_size = Some(sprite_size)],
              sprite_size |-> sprite_size]

\* Mutant: the cell is placed one cell further right and down.
grid_rect_shifted(sprite_size, row, col, checks) ==
    LET x == u32(sprite_size[1] * (col + 1), checks)
        y == u32(sprite_size[2] * (row + 1), checks)
        x1 == u32(x.val + sprite_size[1], checks)
        y1 == u32(y.val + sprite_size[2], checks)
        panic == x.panic \/ y.panic \/ x1.panic \/ y1.panic
    IN  [ret |-> IF panic THEN None
                 ELSE Some(SpriteData_new(<<x.val, y.val>>, <<x1.val, y1.val>>)),
         panic |-> panic]

\* x = w * col, y = h * row, SpriteData::new((x, y), (x + w, y + h)).
grid_rect(sprite_size, row, col, checks) ==
    LET x == u32(sprite_size[1] * col, checks)
        y == u32(sprite_size[2] * row, checks)
        x1 == u32(x.val + sprite_size[1], checks)
        y1 == u32(y.val + sprite_size[2], checks)
        panic == x.panic \/ y.panic \/ x1.panic \/ y1.panic
    IN  [ret |-> IF panic THEN None
                 ELSE Some(SpriteData_new(<<x.val, y.val>>, <<x1.val, y1.val>>)),
         panic |-> panic]

\* impl From<SpriteData> for Vec2: (max.0 - min.0, max.1 - min.1), the
\* subtractions taken in u32.
Vec2_from(value, checks) ==
    LET w == value.max[1] - value.min[1]
        h == value.max[2] - value.min[2]
    IN  [ret |-> << (w + U32) % U32, (h + U32) % U32 >>,
         panic |-> checks /\ (w < 0 \/ h < 0)]

\* Mutant: the index is taken as a position counted from 1.
list_get_from_one(list, index) ==
    IF index >= 1 /\ index <= Len(list) THEN Some(list[index]) ELSE None

\* list.get(index as usize).copied()
list_get(list, index) ==
    IF index < Len(list) THEN Some(list[index + 1]) ELSE None

\* Mutant: a grid without columns has no cell, so get answers None.
get_fn_no_cols_none(s, index, checks) ==
    IF s.layout.tag = "List"
    THEN [sheet |-> s, ret |-> list_get(s.layout.list, index), panic |-> FALSE]
    ELSE LET g == s.layout
         IN  IF g.cols = 0 THEN [sheet |-> s, ret |-> None, panic |-> FALSE]
             ELSE LET row == index \div g.cols
                  IN  IF row >= g.rows
                      THEN [sheet |-> s, ret |-> None, panic |-> FALSE]
                      ELSE LET col == index % g.cols
                               c == sprite_size_or_init(s)
                               r == grid_rect(c.sprite_size, row, col, checks)
                           IN  [sheet |-> c.sheet, ret |-> r.ret, panic |-> r.panic]

\* SpriteSheet::get: the sheet afterwards (the cache is written through the
\* RefCell), the returned Option<SpriteData>, and whether the call panicked.
\* index / g.cols panics when cols = 0.
get_fn(s, index, checks) ==
    IF s.layout.tag = "List"
    THEN [sheet |-> s, ret |-> list_get(s.layout.list, index), panic |-> FALSE]
    ELSE LET g == s.layout
         IN  IF g.cols = 0 THEN [sheet |-> s, ret |-> None, panic |-> TRUE]
             ELSE LET row == index \div g.cols
                  IN  IF row >= g.rows
                      THEN [sheet |-> s, ret |-> None, panic |-> FALSE]
                      ELSE LET col == index % g.cols
                               c == sprite_size_or_init(s)
                               r == grid_rect(c.sprite_size, row, col, checks)
                           IN  [sheet |-> c.sheet, ret |-> r.ret, panic |-> r.panic]

UVec2_min(p, q) ==
    << IF p[1] <= q[1] THEN p[1] ELSE q[1], IF p[2] <= q[2] THEN p[2] ELSE q[2] >>

UVec2_max(p, q) ==
    << IF p[1] >= q[1] THEN p[1] ELSE q[1], IF p[2] >= q[2] THEN p[2] ELSE q[2] >>

\* URect::from_corners(p0, p1): the rectangle spanned by two corners given in
\* any order.
URect_from_corners(p0, p1) == [min |-> UVec2_min(p0, p1), max |-> UVec2_max(p0, p1)]

\* (i..n).filter_map(|i| value.get(i as u32)).for_each(|sprite| add_texture(..)):
\* i < n fits u32 for every n that len() returns here.
RECURSIVE add_textures(_, _, _, _, _)
add_textures(s, i, n, textures, checks) ==
    IF i >= n THEN [sheet |-> s, textures |-> textures, panic |-> FALSE]
    ELSE LET r == get_fn(s, i, checks)
         IN  IF r.panic THEN [sheet |-> r.sheet, textures |-> textures, panic |-> TRUE]
             ELSE add_textures(r.sheet, i + 1, n,
                               IF r.ret = None THEN textures
                               ELSE Append(textures,
                                           URect_from_corners(r.ret[1].min, r.ret[1].max)),
                               checks)

\* Mutant: the iteration runs over 0..=len().
from_fn_inclusive(s, checks) ==
    LET n == len_fn(s, checks)
    IN  IF n.panic THEN [sheet |-> s, ret |-> None, panic |-> TRUE]
        ELSE LET r == add_textures(s, 0, n.val + 1, << >>, checks)
             IN  [sheet |-> r.sheet,
                  ret |-> IF r.panic THEN None
                          ELSE Some([size |-> s.size, textures |-> r.textures]),
                  panic |-> r.panic]

\* Mutant: the iteration starts at index 1.
from_fn_from_one(s, checks) ==
    LET n == len_fn(s, checks)
    IN  IF n.panic THEN [sheet |-> s, ret |-> None, panic |-> TRUE]
        ELSE LET r == add_textures(s, 1, n.val, << >>, checks)
             IN  [sheet |-> r.sheet,
                  ret |-> IF r.panic THEN None
                          ELSE Some([size |-> s.size, textures |-> r.textures]),
                  panic |-> r.panic]

\* impl From<&SpriteSheet> for TextureAtlasLayout
from_fn(s, checks) ==
    LET n == len_fn(s, checks)
    IN  IF n.panic THEN [sheet |-> s, ret |-> None, panic |-> TRUE]
        ELSE LET r == add_textures(s, 0, n.val, << >>, checks)
             IN  [sheet |-> r.sheet,
                  ret |-> IF r.panic THEN None
                          ELSE Some([size |-> s.size, textures |-> r.textures]),
                  panic |-> r.panic]

(* ---------------------- the sheets' specification ---------------------- *)

Dims == 0..MaxDim

\* A grid whose rows * cols is exactly 2^WordBits (65536 x 65536 in u32).
OverflowGrid == Grid(2 ^ (WordBits - WordBits \div 2), 2 ^ (WordBits \div 2))

Grids == {Grid(r, c) : r \in Dims, c \in Dims} \cup {OverflowGrid}

\* Rectangles of a List layout: two side by side, one with min.x > max.x,
\* one reaching beyond every sheet size below but (U32 - 1, U32 - 1).
Rects ==
    {SpriteData_new(<<0, 0>>, <<10, 10>>), SpriteData_new(<<10, 0>>, <<20, 10>>),
     SpriteData_new(<<20, 0>>, <<10, 10>>), SpriteData_new(<<90, 40>>, <<120, 60>>)}

Lists == UNION {[1..n -> Rects] : n \in 0..MaxList}

Sizes == {<<100, 50>>, <<7, 5>>, <<U32 - 1, U32 - 1>>}

\* The sheets as deserialized: grid_sprite_size is #[serde(skip)], so None.
Sheets ==
    {SpriteSheet(l, sz, None) : l \in Grids \cup {List(x) : x \in Lists}, sz \in Sizes}

Indexes == 0..(MaxDim * MaxDim + 1) \cup {U32 - 1}

InitSheet ==
    /\ mapped_buttons = ButtonMapping_default.mapped_buttons
    /\ from_action_map = ButtonMapping_default.from_action_map
    /\ from_button_map = ButtonMapping_default.from_button_map
    /\ call = NoCall
    /\ inputs = NoInputs
    /\ query = NoQuery
    /\ sheet \in Sheets
    /\ out = NoOut
    /\ overflow_checks \in BOOLEAN
    /\ Idle

\* A call that panicked ended the program.
get(index) ==
    LET r == get_fn(sheet, index, overflow_checks)
    IN  /\ ~out.panic
        /\ sheet' = r.sheet
        /\ out' = [op |-> "get", index |-> index, ret |-> r.ret, panic |-> r.panic]
        /\ event' = NoEvent
        /\ UNCHANGED <<registry_vars, overflow_checks, math_vars, asset_vars, image>>

len ==
    LET n == len_fn(sheet, overflow_checks)
    IN  /\ ~out.panic
        /\ out' = [op |-> "len", index |-> 0, ret |-> n.val, panic |-> n.panic]
        /\ event' = NoEvent
        /\ UNCHANGED <<registry_vars, sheet, overflow_checks, math_vars, asset_vars, image>>

from ==
    LET r == from_fn(sheet, overflow_checks)
    IN  /\ ~out.panic
        /\ sheet' = r.sheet
        /\ out' = [op |-> "from", index |-> 0, ret |-> r.ret, panic |-> r.panic]
        /\ event' = NoEvent
        /\ UNCHANGED <<registry_vars, overflow_checks, math_vars, asset_vars, image>>

GetCall == \E index \in Indexes : get(index)

NextSheet == GetCall \/ len \/ from

SpecSheet == InitSheet /\ [][NextSheet]_vars

(* ====================================================================== *)
(*                 dist_to_rect (crate bevy_tarot_hermit, math.rs)        *)
(* ====================================================================== *)

\* Largest absolute value of a coordinate of the points tried.
MaxCoord == 3

f32_max(a, b) == IF a >= b THEN a ELSE b

\* Rect::new(x0, y0, x1, y1): the corners are put in order.
Rect_new(x0, y0, x1, y1) ==
    [min |-> << IF x0 <= x1 THEN x0 ELSE x1, IF y0 <= y1 THEN y0 ELSE y1 >>,
     max |-> << IF x0 >= x1 THEN x0 ELSE x1, IF y0 >= y1 THEN y0 ELSE y1 >>]

\* Rect::contains: the borders belong to the rectangle.
Rect_contains(rect, point) ==
    /\ rect.min[1] <= point[1] /\ point[1] <= rect.max[1]
    /\ rect.min[2] <= point[2] /\ point[2] <= rect.max[2]

\* dist_to_rect.  The f32 it returns, r >= 0, is held as r * r: the sum
\* before .sqrt().  All values are small integers, exact in f32.
dist_to_rect(rect, point) ==
    IF Rect_contains(rect, point) THEN 0
    ELSE LET dx == f32_max(rect.min[1] - point[1], point[1] - rect.max[1])
             dy == f32_max(rect.min[2] - point[2], point[1] - rect.max[1])
         IN  dx * dx + dy * dy

MathRects == {Rect_new(0, 0, 2, 1), Rect_new(1, 1, -1, -1), Rect_new(0, 0, 0, 0)}

Points == (-MaxCoord..MaxCoord) \X (-MaxCoord..MaxCoord)

InitMath ==
    /\ IdleRegistry
    /\ IdleSheet
    /\ IdleAssets
    /\ IdleEditor
    /\ dist \in {[called |-> FALSE, rect |-> r, point |-> p, ret |-> 0] :
                    r \in MathRects, p \in Points}

DistToRect ==
    /\ ~dist.called
    /\ dist' = [dist EXCEPT !.called = TRUE, !.ret = dist_to_rect(dist.rect, dist.point)]
    /\ UNCHANGED <<registry_vars, sheet_vars, asset_vars, editor_vars>>

NextMath == DistToRect

SpecMath == InitMath /\ [][NextMath]_vars

(* ====================================================================== *)
(*      Handle maps and sprites (crate bevy_tarot_magician, lib.rs and    *)
(*      sprite.rs)                                                        *)
(* ====================================================================== *)

\* Number of distinct handles passed to HandleMap::insert.
MaxHandle == 3

\* Most atlas layouts Assets<TextureAtlasLayout> is let to hold.
MaxLayouts == 3

\* The asset keys (K: SpriteAssetKey).
Keys == {"Player", "Tiles"}

\* A Handle<A>: a reference to the asset with this id; clones share the id.
Handle(id) == [id |-> id]

Handle_id(handle) == handle.id

HandleMap_get_key(hm, id) == HashMap_get(hm.id_to_key, id)

HandleMap_get(hm, key) ==
    LET i == HashMap_get(hm.map, key)
    IN  IF i = None THEN None ELSE Vec_get(hm.handles, i[1])

\* Mutant: no early return for a key that is present.
HandleMap_insert_overwrite(hm, key, handle) ==
    [handles |-> Append(hm.handles, handle),
     map |-> HashMap_insert(hm.map, key, Len(hm.handles)),
     id_to_key |-> HashMap_insert(hm.id_to_key, Handle_id(handle), key)]

HandleMap_insert(hm, key, handle) ==
    IF contains_key(hm.map, key) THEN hm
    ELSE [handles |-> Append(hm.handles, handle),
          map |-> HashMap_insert(hm.map, key, Len(hm.handles)),
          id_to_key |-> HashMap_insert(hm.id_to_key, Handle_id(handle), key)]

(* --------------------- the handle map's specification ------------------ *)

Handles == {Handle(i) : i \in 1..MaxHandle}

\* HandleMap::insert on the sprite handle map.
HandleMapInsert ==
    \E key \in Keys, handle \in Handles :
        /\ sprite_handle_map' = HandleMap_insert(sprite_handle_map, key, handle)
        /\ event' = [op |-> "insert", key |-> key, handle |-> handle]
        /\ UNCHANGED <<registry_vars, sheet_vars, math_vars, sprite_sheet_handle_map,
                       atlas_layout_handle_map, sprite_sheets, atlas_layouts, world,
                       image>>

NextHandleMap == HandleMapInsert

SpecHandleMap == Init /\ [][NextHandleMap]_vars

(* ------------------------- add_sprite_to_entity ------------------------ *)

\* The resources and the world that try_add_sprite_to_entity works on.
resources ==
    [sprite_handle_map |-> sprite_handle_map,
     sprite_sheet_handle_map |-> sprite_sheet_handle_map,
     atlas_layout_handle_map |-> atlas_layout_handle_map,
     sprite_sheets |-> sprite_sheets,
     atlas_layouts |-> atlas_layouts,
     world |-> world]

\* The end of the block: c is what the conversion of the sheet with this id
\* gave; atlas_layouts.add and atlas_layout_handle_map.insert follow it.  The
\* id of an added asset is its place in atlas_layouts.
add_layout(key, id, res, c) ==
    LET read == [res EXCEPT !.sprite_sheets[id] = c.sheet]
    IN  IF c.panic
        THEN [res |-> read, ok |-> FALSE, err |-> "panic", panic |-> TRUE]
        ELSE LET handle == Handle(Len(res.atlas_layouts) + 1)
             IN  [res |-> [read EXCEPT
                     !.atlas_layouts = Append(@, c.ret[1]),
                     !.atlas_layout_handle_map = HandleMap_insert(@, key, handle)],
                  ok |-> TRUE, handle |-> handle, panic |-> FALSE]

\* The value of the block that is the argument of unwrap_or: the lookups'
\* early returns (`?`), the conversion, and the end of the block.
new_layout(key, res, checks) ==
    LET sprite_sheet == HandleMap_get(res.sprite_sheet_handle_map, key)
    IN  IF sprite_sheet = None
        THEN [res |-> res, ok |-> FALSE, err |-> "AssetNotFound", panic |-> FALSE]
        ELSE LET id == Handle_id(sprite_sheet[1])
                 loaded == HashMap_get(res.sprite_sheets, id)
             IN  IF loaded = None
                 THEN [res |-> res, ok |-> FALSE, err |-> "NotLoaded", panic |-> FALSE]
                 ELSE add_layout(key, id, res, from_fn(loaded[1], checks))

\* try_get_layout: Ok(atlas_layout_handle_map.get(key).unwrap_or({ .. })).
\* The argument of unwrap_or is evaluated before the call, whatever get
\* returned.
unwrap_or(cached, block) ==
    IF ~block.ok THEN block
    ELSE [block EXCEPT !.handle = IF cached # None THEN cached[1] ELSE block.handle]

try_get_layout(key, res, checks) ==
    unwrap_or(HandleMap_get(res.atlas_layout_handle_map, key),
              new_layout(key, res, checks))

\* entity.insert(bundle): the components of the entity afterwards.
insert_sprite_bundle(w, entity, texture) ==
    [w EXCEPT ![entity].texture = Some(texture)]

insert_texture_atlas(w, entity, layout, index) ==
    [w EXCEPT ![entity].atlas = Some([layout |-> layout, index |-> index])]

\* Option<usize>::unwrap_or_default()
unwrap_or_default(index) == IF index = None THEN 0 ELSE index[1]

\* What follows entity.insert(sprite_bundle): l is what try_get_layout gave;
\* Ok inserts the TextureAtlas, Err is only logged.
match_try_get_layout(ev, l) ==
    IF l.panic THEN [res |-> l.res, ret |-> "panic", panic |-> TRUE]
    ELSE IF l.ok
    THEN [res |-> [l.res EXCEPT !.world =
                      insert_texture_atlas(@, ev.entity, l.handle,
                                           unwrap_or_default(ev.index))],
          ret |-> "Ok", panic |-> FALSE]
    ELSE [res |-> l.res, ret |-> "Ok", panic |-> FALSE]

\* Mutant: the bundle is inserted before the Transform is looked up.
try_add_sprite_to_entity_insert_first(ev, res, checks) ==
    LET sprite == HandleMap_get(res.sprite_handle_map, ev.key)
    IN  IF sprite = None THEN [res |-> res, ret |-> "AssetNotFound", panic |-> FALSE]
        ELSE IF ev.entity \notin DOMAIN res.world
        THEN [res |-> res, ret |-> "EntityNotFound", panic |-> FALSE]
        ELSE LET with_sprite ==
                     [res EXCEPT !.world = insert_sprite_bundle(@, ev.entity, sprite[1])]
             IN  IF res.world[ev.entity].transform = None
                 THEN [res |-> with_sprite, ret |-> "EntityNotFound", panic |-> FALSE]
                 ELSE match_try_get_layout(ev,
                          try_get_layout(ev.key, with_sprite, checks))

\* try_add_sprite_to_entity, with the commands it queues applied.
try_add_sprite_to_entity(ev, res, checks) ==
    LET sprite == HandleMap_get(res.sprite_handle_map, ev.key)
    IN  IF sprite = None THEN [res |-> res, ret |-> "AssetNotFound", panic |-> FALSE]
        ELSE IF ev.entity \notin DOMAIN res.world
        THEN [res |-> res, ret |-> "EntityNotFound", panic |-> FALSE]
        ELSE IF res.world[ev.entity].transform = None
        THEN [res |-> res, ret |-> "EntityNotFound", panic |-> FALSE]
        ELSE LET with_sprite ==
                     [res EXCEPT !.world = insert_sprite_bundle(@, ev.entity, sprite[1])]
             IN  match_try_get_layout(ev, try_get_layout(ev.key, with_sprite, checks))

(* ----------------------- the sprites' specification -------------------- *)

\* Entity 1 has a Transform, entity 2 has none, entity 3 does not exist.
Entities == {1, 2, 3}

InitWorld ==
    (1 :> [transform |-> Some("Transform"), texture |-> None, atlas |-> None])
    @@ (2 :> [transform |-> None, texture |-> None, atlas |-> None])

\* The asset ids the asset server gives the files of a key.
ImageId(key) == IF key = "Player" THEN 1 ELSE 2

SheetId(key) == IF key = "Player" THEN 11 ELSE 12

\* The sheets in the files.
SheetFile(key) ==
    IF key = "Player" THEN SpriteSheet(Grid(1, 2), <<7, 5>>, None)
    ELSE SpriteSheet(List(<< SpriteData_new(<<0, 0>>, <<10, 10>>) >>), <<100, 50>>, None)

InitAssets ==
    /\ IdleRegistry
    /\ IdleSheet
    /\ IdleMath
    /\ IdleEditor
    /\ sprite_handle_map = HandleMap_default
    /\ sprite_sheet_handle_map = HandleMap_default
    /\ atlas_layout_handle_map = HandleMap_default
    /\ sprite_sheets = HashMap_new
    /\ atlas_layouts = << >>
    /\ world = InitWorld

\* load_sprite, when the file exists: the handle is stored under the key.
LoadSprite ==
    \E key \in Keys :
        /\ sprite_handle_map' = HandleMap_insert(sprite_handle_map, key, Handle(ImageId(key)))
        /\ event' = NoEvent
        /\ UNCHANGED <<registry_vars, sheet_vars, math_vars, sprite_sheet_handle_map,
                       atlas_layout_handle_map, sprite_sheets, atlas_layouts, world,
                       image>>

\* load_sprite_sheet, when the file exists.
LoadSpriteSheet ==
    \E key \in Keys :
        /\ sprite_sheet_handle_map' =
               HandleMap_insert(sprite_sheet_handle_map, key, Handle(SheetId(key)))
        /\ event' = NoEvent
        /\ UNCHANGED <<registry_vars, sheet_vars, math_vars, sprite_handle_map,
                       atlas_layout_handle_map, sprite_sheets, atlas_layouts, world,
                       image>>

\* The asset server has finished loading a sheet whose handle is held.
SheetLoaded ==
    \E key \in Keys :
        /\ HandleMap_get(sprite_sheet_handle_map, key) # None
        /\ SheetId(key) \notin DOMAIN sprite_sheets
        /\ sprite_sheets' = HashMap_insert(sprite_sheets, SheetId(key), SheetFile(key))
        /\ event' = NoEvent
        /\ UNCHANGED <<registry_vars, sheet_vars, math_vars, sprite_handle_map,
                       sprite_sheet_handle_map, atlas_layout_handle_map, atlas_layouts,
                       world, image>>

\* The observer add_sprite_to_entity: an error is only logged.
add_sprite_to_entity(ev) ==
    \E r \in {try_add_sprite_to_entity(ev, resources, overflow_checks)} :
        /\ Len(atlas_layouts) < MaxLayouts
        /\ sprite_handle_map' = r.res.sprite_handle_map
        /\ sprite_sheet_handle_map' = r.res.sprite_sheet_handle_map
        /\ atlas_layout_handle_map' = r.res.atlas_layout_handle_map
        /\ sprite_sheets' = r.res.sprite_sheets
        /\ atlas_layouts' = r.res.atlas_layouts
        /\ world' = r.res.world
        /\ event' = [op |-> "AddSpriteToEntity", entity |-> ev.entity, key |-> ev.key,
                     index |-> ev.index, ret |-> r.ret]
        /\ UNCHANGED <<registry_vars, sheet_vars, math_vars, image>>

AddSpriteToEntity ==
    \E entity \in Entities, key \in Keys, index \in {None, Some(1)} :
        add_sprite_to_entity([entity |-> entity, key |-> key, index |-> index])

NextAssets == LoadSprite \/ LoadSpriteSheet \/ SheetLoaded \/ AddSpriteToEntity

SpecAssets == InitAssets /\ [][NextAssets]_vars

(* ====================================================================== *)
(*      The sprite sheet editor (crate bevy_tarot_temperance,             *)
(*      sheet_edit.rs)                                                    *)
(* ====================================================================== *)

\* Largest number of rows and of columns in an editor event.
MaxEditDim == 2

\* Most images whose load completes (each spawns an entity).
MaxSprites == 2

\* Mutant: GridDimensions sets the columns only.
update_sprite_sheet_fn_cols_only(s, ev) ==
    IF s = NoSheet THEN s
    ELSE CASE ev.op = "ToGrid" ->
                IF IsGridLayout(s.layout) THEN s
                ELSE [s EXCEPT !.layout = Grid(ev.rows, ev.cols)]
           [] ev.op = "ToList" ->
                IF IsGridLayout(s.layout) THEN [s EXCEPT !.layout = List(<< >>)] ELSE s
           [] ev.op = "GridDimensions" ->
                IF IsGridLayout(s.layout) THEN [s EXCEPT !.layout.cols = ev.cols] ELSE s
           [] ev.op = "AddSprite" ->
                IF IsGridLayout(s.layout) THEN s
                ELSE [s EXCEPT !.layout.list =
                         Append(@, SpriteData_new(ev.rect.min, ev.rect.max))]

\* update_sprite_sheet: the editing sheet afterwards.  unwrap_option! returns
\* when no sheet is there; only the layout is written.
update_sprite_sheet_fn(s, ev) ==
    IF s = NoSheet THEN s
    ELSE CASE ev.op = "ToGrid" ->
                IF IsGridLayout(s.layout) THEN s
                ELSE [s EXCEPT !.layout = Grid(ev.rows, ev.cols)]
           [] ev.op = "ToList" ->
                IF IsGridLayout(s.layout) THEN [s EXCEPT !.layout = List(<< >>)] ELSE s
           [] ev.op = "GridDimensions" ->
                IF IsGridLayout(s.layout)
                THEN [s EXCEPT !.layout.rows = ev.rows, !.layout.cols = ev.cols]
                ELSE s
           [] ev.op = "AddSprite" ->
                IF IsGridLayout(s.layout) THEN s
                ELSE [s EXCEPT !.layout.list =
                         Append(@, SpriteData_new(ev.rect.min, ev.rect.max))]

(* ----------------------- the editor's specification -------------------- *)

EditDims == 0..MaxEditDim

\* The rectangles drawn in the editor (URect, fields min and max).
EditRects == {[min |-> <<0, 0>>, max |-> <<10, 10>>], [min |-> <<20, 0>>, max |-> <<10, 10>>]}

UpdateSpriteSheet ==
    {[op |-> "ToGrid", rows |-> r, cols |-> c] : r \in EditDims, c \in EditDims}
    \cup {[op |-> "ToList"]}
    \cup {[op |-> "GridDimensions", rows |-> r, cols |-> c] : r \in EditDims, c \in EditDims}
    \cup {[op |-> "AddSprite", rect |-> x] : x \in EditRects}

\* The asset ids of the image being edited and of another image.
ImageIds == {1, 2}

InitEditor ==
    /\ IdleRegistry
    /\ IdleMath
    /\ IdleAssets
    /\ IdleEditor
    /\ sheet = NoSheet
    /\ out = NoOut
    /\ overflow_checks \in BOOLEAN

\* The observer update_sprite_sheet.  A SpriteSheet call that panicked ended
\* the program.
update_sprite_sheet(ev) ==
    /\ ~out.panic
    /\ sheet' = update_sprite_sheet_fn(sheet, ev)
    /\ sheet' # NoSheet /\ IsListLayout(sheet'.layout)
          => Len(sheet'.layout.list) <= MaxList
    /\ event' = ev
    /\ out' = NoOut
    /\ UNCHANGED <<registry_vars, overflow_checks, math_vars, asset_vars, image>>

\* The observer load_sprite: the image is requested and the sheet dropped.
load_sprite ==
    /\ ~out.panic
    /\ image' = Some(Handle(1))
    /\ sheet' = NoSheet
    /\ event' = [op |-> "LoadSprite"]
    /\ out' = NoOut
    /\ UNCHANGED <<registry_vars, overflow_checks, math_vars, asset_vars>>

\* init_loaded_sprite on AssetEvent::LoadedWithDependencies { id }: for the
\* image being edited, a 1 x 1 grid sheet of the image's size replaces the
\* sheet and an entity showing the image is spawned (EditingSpriteSheet.entity
\* is the entity spawned last).
init_loaded_sprite(id, size) ==
    /\ ~out.panic
    /\ Cardinality(DOMAIN world) < MaxSprites
    /\ event' = [op |-> "LoadedWithDependencies", id |-> id]
    /\ out' = NoOut
    /\ IF image # None /\ Handle_id(image[1]) = id
       THEN /\ sheet' = SpriteSheet(Grid(1, 1), size, None)
            /\ world' = (Cardinality(DOMAIN world) + 1
                           :> [transform |-> Some("Transform"), texture |-> image,
                               atlas |-> None]) @@ world
       ELSE UNCHANGED <<sheet, world>>
    /\ UNCHANGED <<registry_vars, overflow_checks, math_vars, sprite_handle_map,
                   sprite_sheet_handle_map, atlas_layout_handle_map, sprite_sheets,
                   atlas_layouts, image>>

Update_sheet == \E ev \in UpdateSpriteSheet : update_sprite_sheet(ev)

InitLoadedSprite == \E id \in ImageIds, size \in Sizes : init_loaded_sprite(id, size)

EditIndexes == 0..(MaxEditDim * MaxEditDim)

\* SpriteSheet::get on the sheet being edited.
EditorGet == sheet # NoSheet /\ \E index \in EditIndexes : get(index)

NextEditor == load_sprite \/ InitLoadedSprite \/ Update_sheet \/ EditorGet

SpecEditor == InitEditor /\ [][NextEditor]_vars

(* ====================================================================== *)
(*                               Properties                               *)
(* ====================================================================== *)

Range(seq) == {seq[k] : k \in DOMAIN seq}

Positions == 1..Len(mapped_buttons)

registry == <<mapped_buttons, from_action_map, from_button_map>>

\* C1: after any sequence of insert_mapping calls (successful or failed) each
\* action is the action of at most one entry, each button is in the button
\* list of at most one entry, and get_action(b) = a exactly when b is
\* contained in get_buttons(a).
C1_InsertOnlyOneToOne ==
    /\ \A p, q \in Positions :
          mapped_buttons[p].action = mapped_buttons[q].action => p = q
    /\ \A p, q \in Positions :
          Range(mapped_buttons[p].buttons) \cap Range(mapped_buttons[q].buttons) # {}
              => p = q
    /\ \A a \in Actions, b \in GenericButton :
          (get_action(self, b) = Some(a))
              <=> (/\ get_buttons(self, a) # None
                   /\ b \in Range(get_buttons(self, a)[1]))

\* C1 witness: both actions are bound, one to two buttons' worth of list, and
\* the last insert_mapping was rejected.
C1_Witness ==
    /\ Len(mapped_buttons) = 2
    /\ \E p \in Positions : Len(mapped_buttons[p].buttons) = 2
    /\ call.op = "insert_mapping"
    /\ call.ret = FALSE

C3_BoundActionRejected ==
    [][(/\ call'.op = "insert_mapping"
        /\ get_buttons(self, call'.action) # None)
       => (/\ call'.ret = FALSE
           /\ mapped_buttons' = mapped_buttons
           /\ \A a \in Actions : get_buttons(self', a) = get_buttons(self, a)
           /\ \A b \in GenericButton :
                 /\ get_action(self', b) = get_action(self, b)
                 /\ is_mapped(self', b) = is_mapped(self, b))]_vars

\* C3 witness: a rejected mapping of a bound action that names a button no
\* entry claims; the button is still unmapped.
C3_Witness ==
    /\ call.op = "insert_mapping"
    /\ call.ret = FALSE
    /\ get_buttons(self, call.action) # None
    /\ \E k \in DOMAIN call.buttons : ~is_mapped(self, call.buttons[k])

C5_UpdateRebindsExactly ==
    [][(/\ call'.op = "update_buttons"
        /\ get_buttons(self, call'.action) # None)
       => LET a == call'.action
              old == Range(get_buttons(self, a)[1])
              new == Range(call'.buttons)
          IN  /\ \A b \in old \ new :
                    /\ ~is_mapped(self', b)
                    /\ get_action(self', b) = None
              /\ \A b \in new :
                    /\ get_action(self', b) = Some(a)
                    /\ \A a2 \in Actions \ {a} :
                          \/ get_buttons(self', a2) = None
                          \/ b \notin Range(get_buttons(self', a2)[1])]_vars

\* C6: in every state reachable by insert_mapping and update_buttons no
\* button is in the button lists of two entries (entries of different
\* actions).
C6_NoButtonInTwoEntries ==
    \A p, q \in Positions :
        mapped_buttons[p].action # mapped_buttons[q].action
            => Range(mapped_buttons[p].buttons) \cap Range(mapped_buttons[q].buttons) = {}

\* C7: in every state reachable by insert_mapping and update_buttons the
\* indexes agree with the entry list: every index value is a valid position,
\* the action index maps a to p exactly when entry p has action a, and the
\* button index maps b to p exactly when entry p's button list contains b.
C7_IndexesAgreeWithList ==
    /\ \A a \in DOMAIN from_action_map : from_action_map[a] \in 0..(Len(mapped_buttons) - 1)
    /\ \A b \in DOMAIN from_button_map : from_button_map[b] \in 0..(Len(mapped_buttons) - 1)
    /\ \A a \in Actions, p \in 0..(Len(mapped_buttons) - 1) :
          (HashMap_get(from_action_map, a) = Some(p))
              <=> (mapped_buttons[p + 1].action = a)
    /\ \A b \in GenericButton, p \in 0..(Len(mapped_buttons) - 1) :
          (HashMap_get(from_button_map, b) = Some(p))
              <=> (b \in Range(mapped_buttons[p + 1].buttons))

\* C8: update_buttons(action, buttons) for an action that is not present
\* changes nothing: the entry list, the action index and the button index are
\* unchanged, whatever buttons are passed.
C8_UpdateAbsentIsNoOp ==
    [][(/\ call'.op = "update_buttons"
        /\ get_buttons(self, call'.action) = None)
       => UNCHANGED registry]_vars

\* C8 witness: update_buttons was called for an action that is not present,
\* with a button that another action claims and a button that is free.
C8_Witness ==
    /\ call.op = "update_buttons"
    /\ get_buttons(self, call.action) = None
    /\ \E k \in DOMAIN call.buttons : get_action(self, call.buttons[k]) # None
    /\ \E k \in DOMAIN call.buttons : ~is_mapped(self, call.buttons[k])

\* The parameter that carries the snapshot of a button's device class.
DeviceOf(b) ==
    CASE b.tag = "KeyBoard" -> "key_codes"
      [] b.tag = "Mouse" -> "mouse_buttons"
      [] b.tag = "Gamepad" -> "gamepad_buttons"

\* C9: ButtonMapping::pressed, just_pressed and just_released for an action
\* are true exactly when at least one button in get_buttons(action)
\* satisfies the same GenericButton predicate on the snapshots passed, and
\* false for an action that is not in the mapping.
C9_ActionQueryIsAnyButton ==
    query.on = "ButtonMapping"
        => LET bts == get_buttons(self, query.action)
           IN  query.result
                   = (/\ bts # None
                      /\ \E k \in DOMAIN bts[1] : GenericButton_query(query.fn, bts[1][k]))

\* C9 witness (the crate doc example): WalkLeft is bound to key A, only the
\* keyboard snapshot is passed, it records a press of A, and
\* just_pressed(WalkLeft) is true.
C9_Witness ==
    /\ get_buttons(self, "WalkLeft") = Some(<<KeyBoard("KeyA")>>)
    /\ inputs.key_codes # None
    /\ inputs.mouse_buttons = None
    /\ inputs.gamepad_buttons = None
    /\ "KeyA" \in inputs.key_codes[1].just_pressed
    /\ query = [on |-> "ButtonMapping", fn |-> "just_pressed", action |-> "WalkLeft",
                button |-> KeyBoard(""), result |-> TRUE]

\* C10: GenericButton::pressed, just_pressed and just_released return false
\* (a boolean, never a failure) whenever the snapshot of the button's own
\* device class is omitted, for every button code and whatever the other two
\* snapshots hold.
C10_OmittedSnapshotIsFalse ==
    query.on = "GenericButton"
        => /\ query.result \in BOOLEAN
           /\ inputs[DeviceOf(query.button)] = None => query.result = FALSE

\* C10 witness: a mouse button was asked about with the mouse snapshot
\* omitted while the keyboard snapshot holds a key that is pressed and just
\* pressed and the gamepad snapshot a released button; the answer is false.
C10_Witness ==
    /\ query.on = "GenericButton"
    /\ query.button = Mouse("Left")
    /\ inputs.mouse_buttons = None
    /\ inputs.key_codes # None
    /\ inputs.gamepad_buttons # None
    /\ "KeyA" \in inputs.key_codes[1].pressed \cap inputs.key_codes[1].just_pressed
    /\ "South" \in inputs.gamepad_buttons[1].just_released
    /\ query.result = FALSE

\* Every value a snapshot parameter of a device class can take.
OptionButtonInput(dev) ==
    {None} \cup {Some([pressed |-> p, just_pressed |-> j, just_released |-> r]) :
                    p \in SUBSET Codes(dev), j \in SUBSET Codes(dev), r \in SUBSET Codes(dev)}

GenericButton_call(fn, b, key_codes, mouse_buttons, gamepad_buttons) ==
    CASE fn = "pressed" -> GenericButton_pressed(b, key_codes, mouse_buttons, gamepad_buttons)
      [] fn = "just_pressed" ->
            GenericButton_just_pressed(b, key_codes, mouse_buttons, gamepad_buttons)
      [] fn = "just_released" ->
            GenericButton_just_released(b, key_codes, mouse_buttons, gamepad_buttons)

ButtonInput_call(fn, bi, x) ==
    CASE fn = "pressed" -> ButtonInput_pressed(bi, x)
      [] fn = "just_pressed" -> ButtonInput_just_pressed(bi, x)
      [] fn = "just_released" -> ButtonInput_just_released(bi, x)

\* C11: the result of GenericButton::pressed / just_pressed / just_released
\* depends only on the snapshot of the button's own device class: a call
\* with the same own snapshot and any other two snapshots (passed or
\* omitted, any content) returns the same value, and when the own snapshot
\* is passed the result is that snapshot's own answer for the button's code.
C11_OnlyOwnSnapshotCounts ==
    query.on = "GenericButton"
        => LET b == query.button
               fn == query.fn
               own == inputs[DeviceOf(b)]
           IN  /\ own # None => query.result = ButtonInput_call(fn, own[1], b.code)
               /\ CASE b.tag = "KeyBoard" ->
                         \A m \in OptionButtonInput("mouse_buttons"),
                            g \in OptionButtonInput("gamepad_buttons") :
                             GenericButton_call(fn, b, own, m, g) = query.result
                    [] b.tag = "Mouse" ->
                         \A k \in OptionButtonInput("key_codes"),
                            g \in OptionButtonInput("gamepad_buttons") :
                             GenericButton_call(fn, b, k, own, g) = query.result
                    [] b.tag = "Gamepad" ->
                         \A k \in OptionButtonInput("key_codes"),
                            m \in OptionButtonInput("mouse_buttons") :
                             GenericButton_call(fn, b, k, m, own) = query.result

\* C11 witness: just_released of the gamepad button is true on a gamepad
\* snapshot that records the release, with the keyboard snapshot omitted and
\* a mouse snapshot whose button is pressed.
C11_Witness ==
    /\ query.on = "GenericButton"
    /\ query.fn = "just_released"
    /\ query.button = Gamepad("South")
    /\ query.result = TRUE
    /\ inputs.key_codes = None
    /\ inputs.mouse_buttons # None
    /\ "Left" \in inputs.mouse_buttons[1].pressed

\* C12: lookups on absent keys are not errors and do not mutate: get_buttons
\* of an action no entry holds (never successfully inserted) is None,
\* get_action of a button no entry lists is None and is_mapped of it is
\* false, and the registry is unchanged by the lookup.
C12_AbsentLookupsAreNone ==
    [][query'.on = "lookup"
       => /\ UNCHANGED registry
          /\ (/\ query'.fn = "get_buttons"
              /\ \A p \in Positions : mapped_buttons[p].action # query'.action)
                => query'.result = None
          /\ (/\ query'.fn = "get_action"
              /\ \A p \in Positions : query'.button \notin Range(mapped_buttons[p].buttons))
                => query'.result = None
          /\ (/\ query'.fn = "is_mapped"
              /\ \A p \in Positions : query'.button \notin Range(mapped_buttons[p].buttons))
                => query'.result = FALSE]_vars

\* C12 witness: get_action was asked about a button that no entry lists in a
\* registry of two entries that maps another button, and answered None.
C12_Witness ==
    /\ query.on = "lookup"
    /\ query.fn = "get_action"
    /\ query.result = None
    /\ Len(mapped_buttons) = 2
    /\ \A p \in Positions : query.button \notin Range(mapped_buttons[p].buttons)
    /\ \E b \in Buttons : b # query.button /\ is_mapped(self, b)
    /\ query.button \in Buttons

(* --------------------------- sprite sheets ---------------------------- *)

IsGrid(s) == s.layout.tag = "Grid"

IsList(s) == s.layout.tag = "List"

\* Grid with rows > 0 and cols > 0, or any List.
WellFormed(s) == IsList(s) \/ (s.layout.rows > 0 /\ s.layout.cols > 0)

Rect(x0, y0, x1, y1) == [min |-> <<x0, y0>>, max |-> <<x1, y1>>]

\* C13: for a Grid sheet with rows > 0, cols > 0 and index < rows * cols,
\* get(index) returns the row-major cell rectangle: with row = index div
\* cols, col = index mod cols, cellW = width div cols, cellH = height div
\* rows, it is (col*cellW, row*cellH) - (col*cellW + cellW, row*cellH +
\* cellH); for size (100,50), rows 2, cols 5, get(0) is (0,0)-(20,25) and
\* get(6) is (20,25)-(40,50).
C13_GridGetIsRowMajorCell ==
    (/\ out.op = "get"
     /\ IsGrid(sheet)
     /\ sheet.layout.rows > 0
     /\ sheet.layout.cols > 0
     /\ out.index < sheet.layout.rows * sheet.layout.cols)
        => LET row == out.index \div sheet.layout.cols
               col == out.index % sheet.layout.cols
               cellW == sheet.size[1] \div sheet.layout.cols
               cellH == sheet.size[2] \div sheet.layout.rows
           IN  /\ ~out.panic
               /\ out.ret = Some(Rect(col * cellW, row * cellH,
                                      col * cellW + cellW, row * cellH + cellH))
               /\ (sheet.size = <<100, 50>> /\ sheet.layout = Grid(2, 5))
                     => /\ out.index = 0 => out.ret = Some(Rect(0, 0, 20, 25))
                        /\ out.index = 6 => out.ret = Some(Rect(20, 25, 40, 50))

\* C13 witness: get(6) on the sheet of size (100,50) with 2 rows and 5
\* columns returned (20,25)-(40,50).
C13_Witness ==
    /\ out.op = "get"
    /\ out.index = 6
    /\ sheet.size = <<100, 50>>
    /\ sheet.layout = Grid(2, 5)
    /\ out.ret = Some(Rect(20, 25, 40, 50))

\* C14: for every well-formed sheet get(index) returns a rectangle exactly
\* when index < len(), and returns None without error for index >= len().
C14_GetIsSomeExactlyBelowLen ==
    (out.op = "get" /\ WellFormed(sheet))
        => LET n == len_fn(sheet, overflow_checks)
           IN  /\ ~out.panic
               /\ ~n.panic
               /\ out.ret # None <=> out.index < n.val

\* Region i of a layout is get(i) with its two corners put in order, as
\* URect::from_corners does.
InOrder(r) ==
    LET lo(a, b) == IF a <= b THEN a ELSE b
        hi(a, b) == IF a >= b THEN a ELSE b
    IN  Rect(lo(r.min[1], r.max[1]), lo(r.min[2], r.max[2]),
             hi(r.min[1], r.max[1]), hi(r.min[2], r.max[2]))

C16_LenIsProductOrListLength ==
    out.op = "len"
        => /\ ~out.panic
           /\ out.ret = IF IsGrid(sheet) THEN sheet.layout.rows * sheet.layout.cols
                        ELSE Len(sheet.layout.list)

\* Every value the grid_sprite_size cache can hold.
Caches == {None} \cup {Some(<<w, h>>) : w \in {0, 1, 20, U32 - 1}, h \in {0, 25}}

\* C17: for a List sheet, get(i) with i < list length returns the i-th
\* stored rectangle with min and max as stored (not clamped to the sheet
\* size, not reordered), whatever the sheet's size and cell-size cache are.
C17_ListGetIsStoredRect ==
    (out.op = "get" /\ IsList(sheet) /\ out.index < Len(sheet.layout.list))
        => /\ ~out.panic
           /\ out.ret = Some(sheet.layout.list[out.index + 1])
           /\ \A sz \in Sizes, c \in Caches :
                 get_fn(SpriteSheet(sheet.layout, sz, c), out.index, overflow_checks).ret
                     = out.ret

\* C17 witness: get(1) on a sheet of size (7,5) returned the second stored
\* rectangle, (90,40)-(120,60), which lies outside the sheet.
C17_Witness ==
    /\ out.op = "get"
    /\ out.index = 1
    /\ IsList(sheet)
    /\ sheet.size = <<7, 5>>
    /\ Len(sheet.layout.list) = 2
    /\ sheet.layout.list[1] = Rect(20, 0, 10, 10)
    /\ out.ret = Some(Rect(90, 40, 120, 60))

\* C18: the Grid cell size is computed once, on the first get that reaches a
\* valid row, as (width div cols, height div rows), stored in the cache and
\* reused: a populated cache never changes, a get that returns None does not
\* populate it, and a repeated get(index) returns the same result.
C18_CellSizeCachedOnce ==
    [][IsGrid(sheet)
       => /\ sheet.grid_sprite_size # None
                => sheet'.grid_sprite_size = sheet.grid_sprite_size
          /\ out'.op = "get"
                => /\ out'.ret = None => sheet'.grid_sprite_size = sheet.grid_sprite_size
                   /\ (out'.ret # None /\ sheet.grid_sprite_size = None)
                        => sheet'.grid_sprite_size =
                              Some(<<sheet.size[1] \div sheet.layout.cols,
                                     sheet.size[2] \div sheet.layout.rows>>)
                   /\ (out.op = "get" /\ out.index = out'.index) => out'.ret = out.ret
                   /\ out'.ret = get_fn([sheet EXCEPT !.grid_sprite_size = None],
                                        out'.index, overflow_checks).ret]_vars

\* C18 witness: get(6) has returned a rectangle from the sheet of size
\* (100,50) with 2 rows and 5 columns, whose cache holds (20,25).
C18_Witness ==
    /\ out.op = "get"
    /\ out.index = 6
    /\ out.ret # None
    /\ sheet.size = <<100, 50>>
    /\ sheet.layout = Grid(2, 5)
    /\ sheet.grid_sprite_size = Some(<<20, 25>>)

\* C19: list positions are stable: no insert_mapping (successful or failed)
\* or update_buttons call moves an entry; update_buttons of a present action
\* replaces the button list at the action's position and leaves the length
\* of the entry list and every other entry's action and button list
\* unchanged.
C19_PositionsAreStable ==
    [][/\ Len(mapped_buttons') >= Len(mapped_buttons)
       /\ \A p \in Positions : mapped_buttons'[p].action = mapped_buttons[p].action
       /\ \A a \in DOMAIN from_action_map :
             a \in DOMAIN from_action_map' /\ from_action_map'[a] = from_action_map[a]
       /\ call'.op = "insert_mapping"
             => \A p \in Positions : mapped_buttons'[p] = mapped_buttons[p]
       /\ (call'.op = "update_buttons" /\ get_buttons(self, call'.action) # None)
             => /\ Len(mapped_buttons') = Len(mapped_buttons)
                /\ \A p \in Positions :
                      mapped_buttons'[p] =
                          IF p = from_action_map[call'.action] + 1
                          THEN MappedButtons_new(call'.action, call'.buttons)
                          ELSE mapped_buttons[p]]_vars

\* C19 witness: update_buttons has replaced the button list of the first of
\* two entries, which is still the first.
C19_Witness ==
    /\ call.op = "update_buttons"
    /\ Len(mapped_buttons) = 2
    /\ mapped_buttons[1] = MappedButtons_new(call.action, call.buttons)
    /\ Len(call.buttons) = 2
    /\ HashMap_get(from_action_map, call.action) = Some(0)

\* C20: every entry of the registry has a button list without duplicate
\* buttons, in every state reachable by insert_mapping and update_buttons.
C20_NoDuplicateButtonsInEntry ==
    \A p \in Positions :
        \A j, k \in DOMAIN mapped_buttons[p].buttons :
            mapped_buttons[p].buttons[j] = mapped_buttons[p].buttons[k] => j = k

\* C22: get on a Grid sheet whose cols is 0 returns no value: for every
\* index, index / cols divides by zero and the call panics, in every build.
C22_GetOnZeroColsFaults ==
    (out.op = "get" /\ IsGrid(sheet) /\ sheet.layout.cols = 0)
        => /\ out.panic
           /\ out.ret = None
           /\ sheet.grid_sprite_size = None

\* C22 witness: get(7) has panicked on a grid of 3 rows and no column, in a
\* build without overflow checks.
C22_Witness ==
    /\ out.op = "get"
    /\ out.index = 7
    /\ out.panic
    /\ sheet.layout = Grid(3, 0)
    /\ ~overflow_checks

\* C23: for a Grid sheet with rows = 0 or cols = 0, len() is 0 and the
\* conversion to a TextureAtlasLayout yields zero regions without a panic
\* and without a get call (the cache is left empty); with rows = 0 and
\* cols > 0, get(index) returns None for every index and no cell size is
\* computed.
C23_EmptyGridHasNoRegions ==
    (IsGrid(sheet) /\ (sheet.layout.rows = 0 \/ sheet.layout.cols = 0))
        => /\ out.op = "len" => (~out.panic /\ out.ret = 0)
           /\ out.op = "from"
                => /\ ~out.panic
                   /\ out.ret = Some([size |-> sheet.size, textures |-> << >>])
           /\ (out.op = "get" /\ sheet.layout.cols > 0)
                => (~out.panic /\ out.ret = None)
           /\ sheet.grid_sprite_size = None

\* C23 witness: a grid of 3 rows and no column was converted to a layout
\* without regions.
C23_Witness ==
    /\ out.op = "from"
    /\ ~out.panic
    /\ sheet.layout = Grid(3, 0)
    /\ out.ret[1].textures = << >>

\* The interiors of two rectangles meet.
Overlap(a, b) ==
    LET lo(x, y) == IF x <= y THEN x ELSE y
        hi(x, y) == IF x >= y THEN x ELSE y
    IN  /\ hi(a.min[1], b.min[1]) < lo(a.max[1], b.max[1])
        /\ hi(a.min[2], b.min[2]) < lo(a.max[2], b.max[2])

\* C27: for a Grid sheet with rows > 0 and cols > 0, every rectangle get
\* returns has min <= max componentwise, max.x <= width and max.y <= height
\* (nothing overflowed in computing it, and max - min does not underflow),
\* and the interiors of the rectangles of two different valid indices do not
\* overlap.
C27_GridRectsInsideSheetAndDisjoint ==
    (/\ out.op = "get"
     /\ IsGrid(sheet)
     /\ sheet.layout.rows > 0
     /\ sheet.layout.cols > 0)
        => /\ ~out.panic
           /\ out.ret # None
                => LET r == out.ret[1]
                       cell == sheet.grid_sprite_size[1]
                       row == out.index \div sheet.layout.cols
                       col == out.index % sheet.layout.cols
                   IN  /\ r.min[1] <= r.max[1] /\ r.min[2] <= r.max[2]
                       /\ r.max[1] <= sheet.size[1] /\ r.max[2] <= sheet.size[2]
                       /\ cell[1] * col + cell[1] < U32
                       /\ cell[2] * row + cell[2] < U32
                       /\ ~Vec2_from(r, TRUE).panic
                       /\ Vec2_from(r, overflow_checks).ret = cell
                       /\ \A j \in Indexes :
                             LET g == get_fn(sheet, j, overflow_checks)
                             IN  (j # out.index /\ g.ret # None)
                                    => ~Overlap(r, g.ret[1])

\* C27 witness: get(6) returned (20,25)-(40,50), the cell right below that
\* of get(1), on the sheet of size (100,50) with 2 rows and 5 columns.
C27_Witness ==
    /\ out.op = "get"
    /\ out.index = 6
    /\ sheet.size = <<100, 50>>
    /\ sheet.layout = Grid(2, 5)
    /\ out.ret = Some(Rect(20, 25, 40, 50))
    /\ get_fn(sheet, 1, overflow_checks).ret = Some(Rect(20, 0, 40, 25))

\* C30: in every state reachable by insert_mapping and update_buttons,
\* is_mapped(b) is true exactly when get_action(b) returns an action, and
\* then that action is present in the mapping: get_buttons of it is not
\* None.
C30_IsMappedIffGetActionSome ==
    \A b \in GenericButton :
        /\ is_mapped(self, b) <=> get_action(self, b) # None
        /\ get_action(self, b) # None
              => get_buttons(self, get_action(self, b)[1]) # None

\* C30 witness: after an update_buttons call one button is mapped to an
\* action of two entries and another button is not mapped.
C30_Witness ==
    /\ call.op = "update_buttons"
    /\ Len(mapped_buttons) = 2
    /\ \E b \in Buttons :
          /\ is_mapped(self, b)
          /\ get_action(self, b) = Some(call.action)
    /\ \E b \in Buttons : ~is_mapped(self, b)

(* ------------------------ handle maps and sprites ---------------------- *)

\* C25: when a TextureAtlasLayout handle is cached for the key,
\* try_get_layout returns it and has no other effect: an AddSpriteToEntity
\* event for such a key adds no asset to atlas_layouts and leaves the handle
\* map as it is, so at most one layout asset is created per key.
C25_CachedLayoutIsReused ==
    [][(/\ event'.op = "AddSpriteToEntity"
        /\ HandleMap_get(atlas_layout_handle_map, event'.key) # None)
       => /\ atlas_layouts' = atlas_layouts
          /\ atlas_layout_handle_map' = atlas_layout_handle_map
          /\ Len(atlas_layouts') <= Cardinality(Keys)
          /\ event'.ret = "Ok"
                => world'[event'.entity].atlas =
                       Some([layout |-> HandleMap_get(atlas_layout_handle_map,
                                                      event'.key)[1],
                             index |-> unwrap_or_default(event'.index)])]_vars

\* C26: after any sequence of HandleMap::insert calls: an insert for a key
\* that is present changes nothing; get(k) is the first handle inserted for
\* k (an insert of a new key makes get return its handle, and no insert
\* changes get of a key that was present); the handle list is as long as the
\* key set and every stored index is a position of it; and whenever
\* get_key(id) returns k, get(k) returns a handle whose id is id.
C26_HandleMapFirstInsertWins ==
    [][event'.op = "insert"
       => LET hm == sprite_handle_map
              new == sprite_handle_map'
          IN  /\ contains_key(hm.map, event'.key) => new = hm
              /\ ~contains_key(hm.map, event'.key)
                    => HandleMap_get(new, event'.key) = Some(event'.handle)
              /\ \A k \in DOMAIN hm.map : HandleMap_get(new, k) = HandleMap_get(hm, k)
              /\ Len(new.handles) = Cardinality(DOMAIN new.map)
              /\ \A k \in DOMAIN new.map : new.map[k] < Len(new.handles)
              /\ \A i \in 1..MaxHandle :
                    HandleMap_get_key(new, i) # None
                       => LET h == HandleMap_get(new, HandleMap_get_key(new, i)[1])
                          IN  h # None /\ Handle_id(h[1]) = i]_vars

\* C26 witness: an insert for a key that was present with another handle
\* came after both keys were stored with one and the same handle.
C26_Witness ==
    /\ event.op = "insert"
    /\ Len(sprite_handle_map.handles) = 2
    /\ sprite_handle_map.handles[1] = sprite_handle_map.handles[2]
    /\ HandleMap_get(sprite_handle_map, event.key) # Some(event.handle)

\* C28: try_add_sprite_to_entity is all-or-nothing on error: when it
\* returns AssetNotFound (no sprite handle for the key) or EntityNotFound
\* (the entity is missing or has no Transform) no component was inserted and
\* no atlas layout was created or cached; and when the sprite handle and the
\* entity exist but no sheet handle or no loaded sheet (hence no layout) is
\* there, it inserts the sprite bundle without a TextureAtlas and returns Ok.
C28_AddSpriteAllOrNothing ==
    [][event'.op = "AddSpriteToEntity"
       => LET ev == event'
              sprite == HandleMap_get(sprite_handle_map, ev.key)
              entity_ok == /\ ev.entity \in DOMAIN world
                           /\ world[ev.entity].transform # None
              sheet_handle == HandleMap_get(sprite_sheet_handle_map, ev.key)
              no_sheet == \/ sheet_handle = None
                          \/ Handle_id(sheet_handle[1]) \notin DOMAIN sprite_sheets
          IN  /\ ev.ret = "AssetNotFound" <=> sprite = None
              /\ ev.ret = "EntityNotFound" <=> (sprite # None /\ ~entity_ok)
              /\ ev.ret \in {"AssetNotFound", "EntityNotFound"} => UNCHANGED asset_vars
              /\ (sprite # None /\ entity_ok /\ no_sheet)
                    => /\ ev.ret = "Ok"
                       /\ world'[ev.entity].texture = sprite
                       /\ world'[ev.entity].atlas = world[ev.entity].atlas
                       /\ \A e \in DOMAIN world \ {ev.entity} : world'[e] = world[e]
                       /\ atlas_layouts' = atlas_layouts
                       /\ atlas_layout_handle_map' = atlas_layout_handle_map]_vars

\* C28 witness: an event with an index for the key whose sheet handle is
\* held but whose sheet is not loaded returned Ok: entity 1 has the sprite
\* and no TextureAtlas, and no layout exists.
C28_Witness ==
    /\ event.op = "AddSpriteToEntity"
    /\ event.ret = "Ok"
    /\ event.index # None
    /\ HandleMap_get(sprite_sheet_handle_map, event.key) # None
    /\ sprite_sheets = HashMap_new
    /\ world[1].texture = HandleMap_get(sprite_handle_map, event.key)
    /\ world[1].atlas = None
    /\ atlas_layouts = << >>

(* ------------------------- the sprite sheet editor --------------------- *)

\* C24: whenever the cell-size cache of a sheet is populated it equals
\* (width div cols, height div rows) of the sheet's current Grid layout, in
\* every state reachable by get calls interleaved with the editor's layout
\* changes; hence get returns the rectangle of the current grid dimensions.
C24_CacheMatchesCurrentGrid ==
    (/\ sheet # NoSheet
     /\ IsGrid(sheet)
     /\ sheet.layout.rows > 0
     /\ sheet.layout.cols > 0
     /\ sheet.grid_sprite_size # None)
        => LET cellW == sheet.size[1] \div sheet.layout.cols
               cellH == sheet.size[2] \div sheet.layout.rows
               row == out.index \div sheet.layout.cols
               col == out.index % sheet.layout.cols
           IN  /\ sheet.grid_sprite_size = Some(<<cellW, cellH>>)
               /\ (out.op = "get" /\ out.ret # None)
                     => out.ret = Some(Rect(col * cellW, row * cellH,
                                            col * cellW + cellW, row * cellH + cellH))

\* C29: update_sprite_sheet changes the editing sheet only in its layout and
\* only so: ToGrid(r,c) turns a List into Grid(r,c) and leaves a Grid as it
\* is; ToList turns a Grid into an empty List and leaves a List as it is;
\* GridDimensions(r,c) sets rows and cols of a Grid and leaves a List as it
\* is; AddSprite(rect) appends exactly that rectangle to a List (the length
\* grows by 1, the earlier entries keep their places) and leaves a Grid as
\* it is; and every event is a no-op while no sheet is loaded.
C29_EditorLayoutTransitions ==
    [][event'.op \in {"ToGrid", "ToList", "GridDimensions", "AddSprite"}
       => /\ UNCHANGED <<image, world>>
          /\ sheet = NoSheet => sheet' = NoSheet
          /\ sheet # NoSheet
                => LET ev == event'
                       old == sheet.layout
                       new == sheet'.layout
                   IN  /\ sheet' # NoSheet
                       /\ sheet'.size = sheet.size
                       /\ sheet'.grid_sprite_size = sheet.grid_sprite_size
                       /\ ev.op = "ToGrid"
                             => new = IF old.tag = "List" THEN Grid(ev.rows, ev.cols)
                                      ELSE old
                       /\ ev.op = "ToList"
                             => new = IF old.tag = "Grid" THEN List(<< >>) ELSE old
                       /\ ev.op = "GridDimensions"
                             => new = IF old.tag = "Grid" THEN Grid(ev.rows, ev.cols)
                                      ELSE old
                       /\ (ev.op = "AddSprite" /\ old.tag = "Grid") => new = old
                       /\ (ev.op = "AddSprite" /\ old.tag = "List")
                             => /\ new.tag = "List"
                                /\ Len(new.list) = Len(old.list) + 1
                                /\ \A i \in 1..Len(old.list) : new.list[i] = old.list[i]
                                /\ new.list[Len(new.list)] =
                                       Rect(ev.rect.min[1], ev.rect.min[2],
                                            ev.rect.max[1], ev.rect.max[2])]_vars

\* C29 witness: AddSprite has appended a second rectangle to the List of
\* the second image loaded into the editor.
C29_Witness ==
    /\ event.op = "AddSprite"
    /\ sheet # NoSheet
    /\ IsList(sheet)
    /\ Len(sheet.layout.list) = 2
    /\ sheet.layout.list[2] = Rect(20, 0, 10, 10)
    /\ sheet.layout.list[1] # sheet.layout.list[2]
    /\ Cardinality(DOMAIN world) = 2

(* ----------------------------- dist_to_rect --------------------------- *)

\* How far x lies outside the range lo..hi: 0 within it.
Outside(x, lo, hi) == IF x < lo THEN lo - x ELSE IF x > hi THEN x - hi ELSE 0

\* C21: dist_to_rect(rect, point) is 0 for a point inside the rectangle and
\* otherwise the Euclidean distance from the point to the rectangle: the
\* horizontal term comes from the point's x against the rect's x bounds, the
\* vertical term from the point's y against the rect's y bounds, and a
\* coordinate within the rect's range on its axis contributes nothing.
\* (Stated on the squares of the distances.)
C21_DistIsEuclidean ==
    dist.called
        => LET ex == Outside(dist.point[1], dist.rect.min[1], dist.rect.max[1])
               ey == Outside(dist.point[2], dist.rect.min[2], dist.rect.max[2])
           IN  dist.ret = ex * ex + ey * ey

====
